---- MODULE Spec2Model ----
(***************************************************************************)
(* Job orchestration engine of the phishing web crawler: the SQLite job    *)
(* store (src/crawler/state.py), the job-queue worker thread               *)
(* (src/crawler/jobqueue.py) and the producers that enqueue work           *)
(* (src/crawler/main.py starts the worker thread next to the scheduler).   *)
(*                                                                         *)
(* The crawl backends (Browsertrix, the wayback downloader) are the        *)
(* environment: what a launch returns or raises and what a status query    *)
(* answers is chosen nondeterministically among the outcomes their code    *)
(* can produce.  They are taken by the interface the worker is written     *)
(* against: create_job returns a job name or raises, and the status query  *)
(* answers a mapping whose "status" the worker branches on.                *)
(***************************************************************************)
EXTENDS Integers, Sequences, FiniteSets, TLC

\* ------------------------------------------------------------------ bounds

\* Rows the jobs table may hold in a run of the model.
MaxJobs == 2
\* Rows of the tables fetch_next_pending is applied to on its own, and the
\* largest limit it is called with.
MaxRows == 3
\* Largest attempts of a row mark_failed is applied to on its own.
MaxAttempts == 2
\* Snapshot timestamps the CDX lookup returns for the URLs of one ingestion run.
MaxStamps == 2
\* Largest max_parallel of a job type in the tick that is followed on its own.
MaxCapacity == 2
\* Latest time, in half days, at which an ingestion run starts.
MaxClock == 6

\* ----------------------------------------------------------- configuration

LIVE_CRAWL == "LIVE_CRAWL"
WAYBACK_DOWNLOAD == "WAYBACK_DOWNLOAD"

\* cfg["queue"]["max_parallel_crawl_jobs"], cfg["queue"]["max_parallel_download_jobs"]
MaxParallelCrawl == 1
MaxParallelDownload == 1
\* cfg["queue"]["max_retries"]
MaxRetries == 2

max_parallel(job_type) ==
    IF job_type = LIVE_CRAWL THEN MaxParallelCrawl ELSE MaxParallelDownload

Urls == {"x.test", "y.test"}
JobTypes == {LIVE_CRAWL, WAYBACK_DOWNLOAD}
\* a job type the scheduler enqueues and the worker has no handler for
LIVE_RELAUNCH == "LIVE_RELAUNCH"
\* the job type run_once enqueues for a dead domain
WAYBACK_CREATE == "WAYBACK_CREATE"

\* The threads that call enqueue_job_unique.
Scheduler == "scheduler"
OtherProducer == "producer2"

\* enqueue_job_unique returns None
None == 0
\* jobs.job_name is NULL or "" : no backend job is recorded for the row
NoName == 0

VARIABLES
    jobs,        \* the jobs table: row id = index (AUTOINCREMENT, never deleted)
    wpc,         \* where the worker thread is in run_forever
    running,     \* _reconcile: the list_running_jobs() snapshot still to poll
    batch,       \* run_forever: the fetched jobs still to dispatch
    polled,      \* _reconcile: the job polled last in this pass and the answer
    producers,   \* the threads calling enqueue_job_unique
    priorities,  \* the priority arguments they pass
    types,       \* the job_type arguments they pass
    ppc,         \* per producer: "idle" or "insert" (between SELECT and INSERT)
    parg,        \* per producer: arguments of the call between SELECT and INSERT
    pret,        \* per producer: what its last completed call returned
    launchFails, \* per row: how many adapter launches for it raised
    stop,        \* JobQueueWorker._stop: main() has called worker.stop()
    terminated,  \* rows whose download process WBDownloader.destroy terminated
    launches,    \* per row: how often it was marked RUNNING by the dispatch loop
                 \* and how often a backend adapter was called to launch it
    seen,        \* per job type: rows in the table when the tick that is followed
                 \* on its own queried the type (0 before)
    meta         \* the meta table: last_full_run and last_incremental_run

vars == <<jobs, wpc, running, batch, polled, producers, priorities, types, ppc, parg, pret, launchFails,
         stop, terminated, launches, seen, meta>>
workerVars == <<wpc, running, batch, polled>>
producerVars == <<producers, priorities, types, ppc, parg, pret>>
launchVars == <<launchFails, launches>>
stopVars == <<stop, terminated>>

Ids(js) == 1..Len(js)

\* -------------------------------------------------------------- job store

NewJob(job_type, url, priority) ==
    [type |-> job_type, url |-> url, status |-> "PENDING", priority |-> priority,
     attempts |-> 0, job_name |-> NoName]

\* the SELECT with its two parameters bound in the wrong order
HasPending_swapped(js, job_type, url) ==
    \E i \in Ids(js) : js[i].type = url /\ js[i].url = job_type /\ js[i].status = "PENDING"

\* the SELECT without its status='PENDING'
HasPending_any(js, job_type, url) ==
    \E i \in Ids(js) : js[i].type = job_type /\ js[i].url = url

\* enqueue_job_unique, the SELECT: a PENDING row of the same type and url
HasPending(js, job_type, url) ==
    \E i \in Ids(js) : js[i].type = job_type /\ js[i].url = url /\ js[i].status = "PENDING"

\* enqueue_job_unique, the INSERT
InsertPending(js, job_type, url, priority) ==
    Append(js, NewJob(job_type, url, priority))

\* add_history_job: the row keeps the status the backend reported
add_history_job(js, job_name, job_type, url, status) ==
    Append(js, [type |-> job_type, url |-> url, status |-> status, priority |-> 100,
                attempts |-> 0, job_name |-> job_name])

\* ORDER BY created_at ASC alone
Before_fifo(js, i, j) ==
    i < j

\* ORDER BY priority ASC, created_at ASC (rows are created in id order)
Before(js, i, j) ==
    \/ js[i].priority < js[j].priority
    \/ js[i].priority = js[j].priority /\ i < j

RECURSIVE Sorted(_, _)
Sorted(js, S) ==
    IF S = {} THEN <<>>
    ELSE LET m == CHOOSE i \in S : \A j \in S \ {i} : Before(js, i, j)
         IN <<m>> \o Sorted(js, S \ {m})

Take(s, n) == IF Len(s) <= n THEN s ELSE SubSeq(s, 1, n)

fetch_next_pending(js, job_type, limit) ==
    Take(Sorted(js, {i \in Ids(js) : js[i].status = "PENDING" /\ js[i].type = job_type}),
         limit)

\* mark_running with the id of the newest row in place of job_id
mark_running_newest(js, job_id) ==
    [js EXCEPT ![Len(js)].status = "RUNNING"]

\* mark_running that writes nothing
mark_running_noop(js, job_id) == js

mark_running(js, job_id) ==
    [js EXCEPT ![job_id].status = "RUNNING"]

mark_finished(js, job_id) ==
    [js EXCEPT ![job_id].status = "FINISHED"]

\* mark_failed comparing with > where the code compares with >=
mark_failed_gt(js, job_id, max_retries) ==
    LET attempts == js[job_id].attempts + 1
    IN IF attempts > max_retries
       THEN [js EXCEPT ![job_id].status = "FAILED", ![job_id].attempts = attempts]
       ELSE [js EXCEPT ![job_id].status = "PENDING", ![job_id].attempts = attempts]

mark_failed(js, job_id, max_retries) ==
    LET attempts == js[job_id].attempts + 1
    IN IF attempts >= max_retries
       THEN [js EXCEPT ![job_id].status = "FAILED", ![job_id].attempts = attempts]
       ELSE [js EXCEPT ![job_id].status = "PENDING", ![job_id].attempts = attempts]

\* count_running_jobs without its "and type=?"
count_running_jobs_any_type(js, job_type) ==
    Cardinality({i \in Ids(js) : js[i].status = "RUNNING"})

count_running_jobs(js, job_type) ==
    Cardinality({i \in Ids(js) : js[i].status = "RUNNING" /\ js[i].type = job_type})

RECURSIVE Ascending(_)
Ascending(S) ==
    IF S = {} THEN <<>>
    ELSE LET m == CHOOSE i \in S : \A j \in S : i <= j
         IN <<m>> \o Ascending(S \ {m})

\* list_running_jobs without its WHERE status='RUNNING'
list_running_jobs_all(js) ==
    Ascending(Ids(js))

list_running_jobs(js) ==
    Ascending({i \in Ids(js) : js[i].status = "RUNNING"})

update_job_name(js, job_id, job_name) ==
    [js EXCEPT ![job_id].job_name = job_name]

\* ------------------------------------------------------------------- Init

\* a producer that is not inside enqueue_job_unique holds no arguments
NoArgs == <<>>
\* the reconcile pass has not polled a job yet
NoPoll == <<>>
\* a row the dispatch loop has not touched
NoLaunch == [marks |-> 0, calls |-> 0]
\* no type queried
NoneSeen == [t \in {LIVE_CRAWL, WAYBACK_DOWNLOAD} |-> 0]
\* get_meta returns None: the key is not in the table
Unset == <<>>
\* a fresh database
NoMeta == [last_full_run |-> Unset, last_incremental_run |-> Unset]

\* the worker at pc, the table one of Tables, nothing fetched or polled
InitAt(pc, Tables, P, Prios, Types) ==
    /\ jobs \in Tables
    /\ wpc = pc
    /\ running = <<>>
    /\ batch = <<>>
    /\ polled = NoPoll
    /\ producers = P
    /\ priorities = Prios
    /\ types = Types
    /\ ppc = [p \in P |-> "idle"]
    /\ parg = [p \in P |-> NoArgs]
    /\ pret = [p \in P |-> None]
    /\ launchFails = [j \in Ids(jobs) |-> 0]
    /\ launches = [j \in Ids(jobs) |-> NoLaunch]
    /\ stop = FALSE
    /\ terminated = {}
    /\ seen = NoneSeen
    /\ meta = NoMeta

\* a fresh database, the worker about to rebuild the job history
InitWith(P, Prios, Types) ==
    InitAt("rebuild_live", {<<>>}, P, Prios, Types)

\* main(): one scheduler thread enqueues, one worker thread dispatches
Init == InitWith({Scheduler}, {50}, JobTypes)

\* ------------------------------------------------------------- producers

\* enqueue_job_unique up to and including its SELECT
EnqueueSelect(p, job_type, url, priority) ==
    /\ ppc[p] = "idle"
    /\ p = Scheduler => ~stop
    /\ Len(jobs) + Cardinality({q \in producers : ppc[q] = "insert"}) < MaxJobs
    /\ IF HasPending(jobs, job_type, url)
       THEN /\ pret' = [pret EXCEPT ![p] = None]
            /\ UNCHANGED <<ppc, parg>>
       ELSE /\ ppc' = [ppc EXCEPT ![p] = "insert"]
            /\ parg' = [parg EXCEPT ![p] =
                           [type |-> job_type, url |-> url, priority |-> priority]]
            /\ pret' = pret
    /\ UNCHANGED <<jobs, workerVars, producers, priorities, types, launchVars>>
    /\ UNCHANGED <<stopVars, seen, meta>>

\* enqueue_job_unique, its INSERT and return of lastrowid
EnqueueInsert(p) ==
    /\ ppc[p] = "insert"
    /\ p = Scheduler => ~stop
    /\ jobs' = InsertPending(jobs, parg[p].type, parg[p].url, parg[p].priority)
    /\ launchFails' = Append(launchFails, 0)
    /\ launches' = Append(launches, NoLaunch)
    /\ pret' = [pret EXCEPT ![p] = Len(jobs) + 1]
    /\ ppc' = [ppc EXCEPT ![p] = "idle"]
    /\ parg' = [parg EXCEPT ![p] = NoArgs]
    /\ UNCHANGED <<workerVars, producers, priorities, types>>
    /\ UNCHANGED <<stopVars, seen, meta>>

Enqueue ==
    \E p \in producers :
        \/ \E t \in types, u \in Urls, pr \in priorities : EnqueueSelect(p, t, u, pr)
        \/ EnqueueInsert(p)

\* ------------------------------------------------------- backend adapters

\* what _get_job_status can answer in status["status"]
AdapterStatuses == {"RUNNING", "FINISHED", "FAILED", "UNKNOWN"}

\* what the backend of job_type answers for job_name.  WBDownloader knows the
\* names it handed out, a row without a name is "Job not found": FAILED.
\* BrowsertrixClient asked for the empty name lists every crawl config of the
\* organisation and answers with the state of the first one, FAILED if there is
\* none.
StatusAnswers(job_type, job_name) ==
    IF job_type = WAYBACK_DOWNLOAD /\ job_name = NoName
    THEN {"FAILED"}
    ELSE AdapterStatuses

\* BrowsertrixClient.rebuild_job_info: _convert_status of lastCrawlState
BtrixHistoryStatuses == {"RUNNING", "FINISHED", "UNKNOWN"}
\* WBDownloader.rebuild_job_info: the status column of wb_download.csv
WbHistoryStatuses == {"FINISHED", "FAILED"}

\* _handle_job: BrowsertrixClient.create_job swallows its errors and returns ""
\* ("empty"); WBDownloader.create_job lets Popen's error out; recording the name
\* can raise as well
\* a job of any other type: the handler logs "Unknow job type" and returns
LaunchOutcomes(job_type) ==
    IF job_type = LIVE_CRAWL THEN {"ok", "empty", "raise"}
    ELSE IF job_type = WAYBACK_DOWNLOAD THEN {"ok", "raise"}
    ELSE {"unknown"}

\* ----------------------------------------------------------------- worker

\* _reconcile: the max_retries it hands to mark_failed
RetriesArg(job_type) ==
    IF job_type = WAYBACK_DOWNLOAD THEN MaxRetries ELSE 0

\* _reconcile taking every answer that is not FAILED for success
Reconciled_else_finished(js, job_id, st) ==
    IF st = "FAILED" THEN mark_failed(js, job_id, RetriesArg(js[job_id].type))
    ELSE mark_finished(js, job_id)

\* _reconcile, the body of its loop for one RUNNING job whose backend answers st
Reconciled(js, job_id, st) ==
    IF st = "FINISHED" THEN mark_finished(js, job_id)
    ELSE IF st = "FAILED" THEN mark_failed(js, job_id, RetriesArg(js[job_id].type))
    ELSE js

\* _handle_job followed by run_forever's except clause: a launch that raises is
\* logged and nothing is written.  _handle_job records the name through
\* state.update_job_info, a method the store does not define (its method is
\* update_job_name): that call raising is one of the "raise" outcomes.
\* For a job of another type ("unknown") the handler returns before it writes.
Handled(js, job_id, outcome, job_name) ==
    IF outcome = "ok" THEN update_job_name(js, job_id, job_name)
    ELSE IF outcome = "empty" THEN update_job_name(js, job_id, NoName)
    ELSE js

\* the capacity loop without its capacity: every PENDING row of the type
Fetched_nocap(js, job_type) == fetch_next_pending(js, job_type, Len(js))

\* run_forever: capacity of one job type and the rows fetched for it
Fetched(js, job_type) ==
    LET capacity == max_parallel(job_type) - count_running_jobs(js, job_type)
    IN IF capacity <= 0 THEN <<>> ELSE fetch_next_pending(js, job_type, capacity)

\* rebuild_job_info, first loop: one Browsertrix crawl config becomes a row
RebuildLive ==
    /\ wpc = "rebuild_live"
    /\ Len(jobs) + Cardinality({q \in producers : ppc[q] = "insert"}) < MaxJobs
    /\ \E u \in Urls, st \in BtrixHistoryStatuses :
           jobs' = add_history_job(jobs, 1, LIVE_CRAWL, u, st)
    /\ launchFails' = Append(launchFails, 0)
    /\ launches' = Append(launches, NoLaunch)
    /\ UNCHANGED <<workerVars, producerVars>>
    /\ UNCHANGED <<stopVars, seen, meta>>

RebuildLiveDone ==
    /\ wpc = "rebuild_live"
    /\ wpc' = "rebuild_wb"
    /\ UNCHANGED <<jobs, running, batch, polled, producerVars, launchVars>>
    /\ UNCHANGED <<stopVars, seen, meta>>

\* rebuild_job_info, second loop: one line of the download log becomes a row
RebuildWb ==
    /\ wpc = "rebuild_wb"
    /\ Len(jobs) + Cardinality({q \in producers : ppc[q] = "insert"}) < MaxJobs
    /\ \E u \in Urls, st \in WbHistoryStatuses :
           jobs' = add_history_job(jobs, 1, WAYBACK_DOWNLOAD, u, st)
    /\ launchFails' = Append(launchFails, 0)
    /\ launches' = Append(launches, NoLaunch)
    /\ UNCHANGED <<workerVars, producerVars>>
    /\ UNCHANGED <<stopVars, seen, meta>>

RebuildWbDone ==
    /\ wpc = "rebuild_wb"
    /\ wpc' = "sleep"
    /\ UNCHANGED <<jobs, running, batch, polled, producerVars, launchVars>>
    /\ UNCHANGED <<stopVars, seen, meta>>

\* a while test that never looks at _stop
loop_continues_ever(stop_flag) == TRUE

\* run_forever: while not self._stop.is_set()
loop_continues(stop_flag) == ~stop_flag

\* run_forever: the while test finds _stop unset, the worker sleeps;
\* _reconcile: running = self.state.list_running_jobs()
ReconcileStart ==
    /\ wpc = "sleep"
    /\ loop_continues(stop)
    /\ running' = list_running_jobs(jobs)
    /\ wpc' = "reconcile"
    /\ UNCHANGED <<jobs, batch, polled, producerVars, launchVars>>
    /\ UNCHANGED <<stopVars, seen, meta>>

\* _reconcile: one iteration of the loop
ReconcileJob ==
    /\ wpc = "reconcile"
    /\ running # <<>>
    /\ LET job_id == Head(running)
       IN \E st \in StatusAnswers(jobs[job_id].type, jobs[job_id].job_name) :
            /\ jobs' = Reconciled(jobs, job_id, st)
            /\ polled' = <<job_id, st>>
    /\ running' = Tail(running)
    /\ UNCHANGED <<wpc, batch, producerVars, launchVars>>
    /\ UNCHANGED <<stopVars, seen, meta>>

\* what can raise inside _reconcile: the status query or a missing key of its
\* answer, and a store call (sqlite3.Error)
RaiseKinds == {"adapter_raise", "store_raise"}

\* _reconcile raises; run_forever logs "Reconcile failed" and goes on to
\* dispatch, the rest of the snapshot is not polled in this tick
ReconcileRaise ==
    /\ wpc = "reconcile"
    /\ running # <<>>
    /\ running' = <<>>
    /\ \E kind \in RaiseKinds : polled' = <<Head(running), kind>>
    /\ wpc' = "fetch_live"
    /\ UNCHANGED <<jobs, batch, producerVars, launchVars>>
    /\ UNCHANGED <<stopVars, seen, meta>>

\* run_forever: the capacity loop, job_type = LIVE_CRAWL
FetchLive ==
    /\ \/ wpc = "reconcile" /\ running = <<>>
       \/ wpc = "fetch_live"
    /\ batch' = Fetched(jobs, LIVE_CRAWL)
    /\ polled' = NoPoll
    /\ wpc' = "fetch_wb"
    /\ UNCHANGED <<jobs, running, producerVars, launchVars>>
    /\ UNCHANGED <<stopVars, seen, meta>>

\* run_forever: the capacity loop, job_type = WAYBACK_DOWNLOAD, and the
\* "if len(jobs) == 0: continue" after it
FetchWb ==
    /\ wpc = "fetch_wb"
    /\ batch' = batch \o Fetched(jobs, WAYBACK_DOWNLOAD)
    /\ wpc' = IF batch' = <<>> THEN "sleep" ELSE "dispatch"
    /\ UNCHANGED <<jobs, running, polled, producerVars, launchVars>>
    /\ UNCHANGED <<stopVars, seen, meta>>

\* run_forever: self.state.mark_running(job["id"])
DispatchMark ==
    /\ wpc = "dispatch"
    /\ jobs' = mark_running(jobs, Head(batch))
    /\ launches' = [launches EXCEPT ![Head(batch)].marks = @ + 1]
    /\ wpc' = "launch"
    /\ UNCHANGED <<running, batch, polled, producerVars, launchFails>>
    /\ UNCHANGED <<stopVars, seen, meta>>

\* run_forever: try: self._handle_job(job) except Exception: log
DispatchLaunch ==
    /\ wpc = "launch"
    /\ LET job_id == Head(batch)
       IN \E outcome \in LaunchOutcomes(jobs[job_id].type) :
            /\ jobs' = Handled(jobs, job_id, outcome, jobs[job_id].attempts + 1)
            /\ launchFails' = [launchFails EXCEPT ![job_id] =
                                  IF outcome = "raise" THEN @ + 1 ELSE @]
            /\ launches' = [launches EXCEPT ![job_id].calls =
                                  IF outcome = "unknown" THEN @ ELSE @ + 1]
    /\ batch' = Tail(batch)
    /\ wpc' = IF batch' = <<>> THEN "sleep" ELSE "dispatch"
    /\ UNCHANGED <<running, polled, producerVars>>
    /\ UNCHANGED <<stopVars, seen, meta>>

\* a store call of the capacity loop or mark_running raises: nothing in
\* run_forever catches it, the worker thread ends where it is
WorkerDies ==
    /\ \/ wpc = "reconcile" /\ running = <<>>
       \/ wpc \in {"fetch_live", "fetch_wb", "dispatch"}
    /\ wpc' = "died"
    /\ running' = <<>>
    /\ batch' = <<>>
    /\ polled' = NoPoll
    /\ UNCHANGED <<jobs, producerVars, launchVars, stopVars, seen, meta>>

\* main(), finally: worker.stop(); the scheduler has left run_loop
Stop ==
    /\ ~stop
    /\ stop' = TRUE
    /\ UNCHANGED <<jobs, workerVars, producerVars, launchVars, terminated, seen, meta>>

\* WBDownloader._jobs: the downloads started by this worker and not yet seen
\* ended by get_job_status
wb_jobs(js) ==
    {j \in Ids(js) : /\ js[j].type = WAYBACK_DOWNLOAD
                      /\ js[j].status = "RUNNING"
                      /\ js[j].job_name # NoName}

\* run_forever: the while test finds _stop set; self.wb_downloader.destroy()
\* terminates every download process that has not exited yet
WorkerExit ==
    /\ wpc = "sleep"
    /\ ~loop_continues(stop)
    /\ wpc' = "stopped"
    /\ \E alive \in SUBSET wb_jobs(jobs) : terminated' = alive
    /\ UNCHANGED <<jobs, running, batch, polled, producerVars, launchVars, stop, seen, meta>>

Next ==
    \/ Enqueue
    \/ RebuildLive
    \/ RebuildLiveDone
    \/ RebuildWb
    \/ RebuildWbDone
    \/ ReconcileStart
    \/ ReconcileJob
    \/ ReconcileRaise
    \/ FetchLive
    \/ FetchWb
    \/ DispatchMark
    \/ DispatchLaunch

\* the process is not stopped and the store calls of the dispatch loop complete
Spec == Init /\ [][Next]_vars

\* the worker thread is scheduled: whatever step run_forever is at is taken
Worker ==
    \/ RebuildLiveDone
    \/ RebuildWbDone
    \/ ReconcileStart
    \/ ReconcileJob
    \/ ReconcileRaise
    \/ FetchLive
    \/ FetchWb
    \/ DispatchMark
    \/ DispatchLaunch

\* the backend job recorded for row job_id reports FINISHED or FAILED
FinalAnswer(job_id) ==
    /\ ReconcileJob
    /\ Head(running) = job_id
    /\ jobs[job_id].job_name # NoName
    /\ polled'[2] \in {"FINISHED", "FAILED"}

\* the worker keeps ticking, and a launched backend job polled again and again
\* reports FINISHED or FAILED at some poll
SpecLive ==
    /\ Init
    /\ [][Next]_vars
    /\ WF_vars(Worker)
    /\ \A job_id \in 1..MaxJobs : SF_vars(FinalAnswer(job_id))

\* main() stops the worker
NextStop ==
    \/ Next
    \/ Stop
    \/ WorkerExit

SpecStop == Init /\ [][NextStop]_vars

\* run_forever's loop from its first tick on a fresh database, until main()
\* stops the worker and run_forever returns
NextLoop ==
    \/ Enqueue
    \/ ReconcileStart
    \/ ReconcileJob
    \/ ReconcileRaise
    \/ FetchLive
    \/ FetchWb
    \/ DispatchMark
    \/ DispatchLaunch
    \/ Stop
    \/ WorkerExit

\* the scheduler enqueues download jobs, the jobs destroy() is about
InitLoop == InitAt("sleep", {<<>>}, {Scheduler}, {50}, {WAYBACK_DOWNLOAD})

\* the worker thread is scheduled until run_forever returns
SpecStopLive ==
    /\ InitLoop
    /\ [][NextLoop]_vars
    /\ WF_vars(Worker)
    /\ WF_vars(WorkerExit)

\* store calls of the dispatch loop may fail
NextErr ==
    \/ Next
    \/ WorkerDies

SpecErr == Init /\ [][NextErr]_vars

\* two threads call enqueue_job_unique on the shared store
InitConc == InitWith({Scheduler, OtherProducer}, {50}, JobTypes)
SpecConc == InitConc /\ [][Next]_vars

\* ------------------------------------------------- operations on their own

\* The dispatch loop body (mark_running, then _handle_job) applied to every
\* PENDING row whatever its type, as test_jobqueue_handlers drives it: run_forever
\* itself fetches LIVE_CRAWL and WAYBACK_DOWNLOAD rows only.
FetchAnyType ==
    /\ wpc = "sleep"
    /\ \E i \in Ids(jobs) : jobs[i].status = "PENDING"
    /\ batch' = Sorted(jobs, {i \in Ids(jobs) : jobs[i].status = "PENDING"})
    /\ wpc' = "dispatch"
    /\ UNCHANGED <<jobs, running, polled, producerVars, launchVars>>
    /\ UNCHANGED <<stopVars, seen, meta>>

NextHandler ==
    \/ Enqueue
    \/ FetchAnyType
    \/ DispatchMark
    \/ DispatchLaunch

InitHandler ==
    InitAt("sleep", {<<>>}, {Scheduler}, {50}, JobTypes \cup {LIVE_RELAUNCH})
SpecHandler == InitHandler /\ [][NextHandler]_vars

\* fetch_next_pending applied to a table of PENDING and RUNNING rows
FetchRows ==
    [type : JobTypes, url : Urls, status : {"PENDING", "RUNNING"},
     priority : {10, 20}, attempts : {0}, job_name : {NoName}]

FetchTables == UNION {[1..n -> FetchRows] : n \in 0..MaxRows}

FetchCall(job_type, limit) ==
    /\ wpc = "call"
    /\ batch' = fetch_next_pending(jobs, job_type, limit)
    /\ wpc' = "return"
    /\ UNCHANGED <<jobs, running, polled, producerVars, launchVars>>
    /\ UNCHANGED <<stopVars, seen, meta>>

NextFetch ==
    \E job_type \in JobTypes, limit \in 1..MaxRows : FetchCall(job_type, limit)

InitFetch == InitAt("call", FetchTables, {Scheduler}, {10, 20}, JobTypes)
SpecFetch == InitFetch /\ [][NextFetch]_vars

\* mark_failed applied to a RUNNING row of a table, with any max_retries
MarkRows ==
    [type : JobTypes, url : {"x.test"}, status : {"PENDING", "RUNNING"},
     priority : {50}, attempts : 0..MaxAttempts, job_name : {NoName, 1}]

MarkTables == UNION {[1..n -> MarkRows] : n \in 1..MaxJobs}

MarkFailedCall(job_id, max_retries) ==
    /\ wpc = "call"
    /\ job_id \in Ids(jobs)
    /\ jobs[job_id].status = "RUNNING"
    /\ jobs' = mark_failed(jobs, job_id, max_retries)
    /\ parg' = [parg EXCEPT ![Scheduler] =
                   [job_id |-> job_id, max_retries |-> max_retries]]
    /\ wpc' = "return"
    /\ UNCHANGED <<running, batch, polled, producers, priorities, types, ppc, pret,
                   launchVars, stopVars, seen, meta>>

NextMarkFailed ==
    \E job_id \in 1..MaxJobs, max_retries \in 0..(MaxAttempts + 1) :
        MarkFailedCall(job_id, max_retries)

InitMarkFailed == InitAt("call", MarkTables, {Scheduler}, {50}, JobTypes)
SpecMarkFailed == InitMarkFailed /\ [][NextMarkFailed]_vars

\* run_once, "Dead": seeds_by_d_ts, the (domain, timestamp) pairs of the dead
\* domains in the order the loop over its items takes them
Stamps == 1..MaxStamps
DomainStamps == Urls \X Stamps

IngestPlans ==
    {todo \in UNION {[1..n -> DomainStamps] : n \in 1..Cardinality(DomainStamps)} :
        \A k, l \in 1..Len(todo) : k # l => todo[k] # todo[l]}

InitIngest ==
    /\ jobs = <<>>
    /\ wpc = "sleep"
    /\ running = <<>>
    /\ batch = <<>>
    /\ polled = NoPoll
    /\ producers = {Scheduler}
    /\ priorities = {60}
    /\ types = {WAYBACK_CREATE}
    /\ ppc = [p \in {Scheduler} |-> "run_once"]
    /\ \E todo \in IngestPlans :
           parg = [p \in {Scheduler} |-> [todo |-> todo, done |-> {}]]
    /\ pret = [p \in {Scheduler} |-> None]
    /\ launchFails = <<>>
    /\ launches = <<>>
    /\ stop = FALSE
    /\ terminated = {}
    /\ seen = NoneSeen
    /\ meta = NoMeta

\* run_once: one iteration of "for (d, ts), urlset in seeds_by_d_ts.items()",
\* no Heritrix job of that name existing: enqueue_job_unique(WAYBACK_CREATE, d, ...)
IngestEnqueue ==
    /\ ppc[Scheduler] = "run_once"
    /\ parg[Scheduler].todo # <<>>
    /\ LET d == Head(parg[Scheduler].todo)[1]
       IN IF HasPending(jobs, WAYBACK_CREATE, d)
          THEN /\ pret' = [pret EXCEPT ![Scheduler] = None]
               /\ UNCHANGED <<jobs, launchFails, launches>>
          ELSE /\ jobs' = InsertPending(jobs, WAYBACK_CREATE, d, 60)
               /\ launchFails' = Append(launchFails, 0)
               /\ launches' = Append(launches, NoLaunch)
               /\ pret' = [pret EXCEPT ![Scheduler] = Len(jobs) + 1]
    /\ parg' = [parg EXCEPT ![Scheduler] =
                   [todo |-> Tail(@.todo), done |-> @.done \cup {Head(@.todo)}]]
    /\ UNCHANGED <<workerVars, producers, priorities, types, ppc, stopVars, seen, meta>>

NextIngest == IngestEnqueue

SpecIngest == InitIngest /\ [][NextIngest]_vars

\* The watermarks of run_once, run after run by the scheduler thread.  Times are
\* counted in half days.
\* datetime.isoformat and datetime.fromisoformat: the text kept in meta.value
isoformat(dt) == <<"iso", dt>>
fromisoformat(v) == v[2]
\* datetime.date()
date(dt) == dt \div 2

\* get_last_full_run, get_last_incremental_run: None or the datetime parsed
get_last_run(v) == IF v = Unset THEN Unset ELSE <<fromisoformat(v)>>

\* "last_incr or last_full" taking last_full whatever last_incr is
window_start_full(last_incr, last_full) == last_full

\* run_once: start = last_incr or last_full
window_start(last_incr, last_full) ==
    IF last_incr # Unset THEN last_incr ELSE last_full

\* the scheduler thread between two runs: the locals of the run before
NoRun == [now |-> 0, mode |-> "none", start |-> Unset, window |-> <<>>, fetched |-> FALSE]

\* run_once up to its call of fetch_iosco_csv: full or incremental
RunOnceStart ==
    /\ ppc[Scheduler] = "run_once"
    /\ \E now \in (parg[Scheduler].now + 1)..MaxClock :
         LET last_full == get_last_run(meta.last_full_run)
             last_incr == get_last_run(meta.last_incremental_run)
         IN parg' = [parg EXCEPT ![Scheduler] =
                IF last_full = Unset
                THEN [now |-> now, mode |-> "full", start |-> Unset,
                      window |-> <<>>, fetched |-> FALSE]
                ELSE LET start == window_start(last_incr, last_full)
                     IN [now |-> now, mode |-> "incremental", start |-> start,
                         window |-> <<date(start[1]), date(now)>>, fetched |-> FALSE]]
    /\ ppc' = [ppc EXCEPT ![Scheduler] = "fetch"]
    /\ UNCHANGED <<jobs, workerVars, producers, priorities, types, pret,
                   launchVars, stopVars, seen, meta>>

\* fetch_iosco_csv returns the path of the export: the run's watermark is set
RunOnceFetched ==
    /\ ppc[Scheduler] = "fetch"
    /\ meta' = IF parg[Scheduler].mode = "full"
               THEN [meta EXCEPT !.last_full_run = isoformat(parg[Scheduler].now)]
               ELSE [meta EXCEPT !.last_incremental_run = isoformat(parg[Scheduler].now)]
    /\ parg' = [parg EXCEPT ![Scheduler].fetched = TRUE]
    /\ ppc' = [ppc EXCEPT ![Scheduler] = "run_once"]
    /\ UNCHANGED <<jobs, workerVars, producers, priorities, types, pret,
                   launchVars, stopVars, seen>>

\* fetch_iosco_csv raises (request error, HTTP status): run_once ends there,
\* run_loop's except clause sleeps and the loop goes on
RunOnceFetchRaises ==
    /\ ppc[Scheduler] = "fetch"
    /\ ppc' = [ppc EXCEPT ![Scheduler] = "run_once"]
    /\ UNCHANGED <<jobs, workerVars, producers, priorities, types, parg, pret,
                   launchVars, stopVars, seen, meta>>

NextRun ==
    \/ RunOnceStart
    \/ RunOnceFetched
    \/ RunOnceFetchRaises

InitRun ==
    /\ jobs = <<>>
    /\ wpc = "sleep"
    /\ running = <<>>
    /\ batch = <<>>
    /\ polled = NoPoll
    /\ producers = {Scheduler}
    /\ priorities = {50}
    /\ types = JobTypes
    /\ ppc = [p \in {Scheduler} |-> "run_once"]
    /\ parg = [p \in {Scheduler} |-> NoRun]
    /\ pret = [p \in {Scheduler} |-> None]
    /\ launchFails = <<>>
    /\ launches = <<>>
    /\ stop = FALSE
    /\ terminated = {}
    /\ seen = NoneSeen
    /\ meta = NoMeta

SpecRun == InitRun /\ [][NextRun]_vars

\* Two threads call mark_failed on the shared store, each on its own
\* connection in autocommit mode: the SELECT and the UPDATE of a call are two
\* statements, and statements of the other thread can come between them.
Caller1 == "caller1"
Caller2 == "caller2"

\* mark_failed up to and including its SELECT: attempts = row[0] + 1
MarkFailedSelect(p, job_id, max_retries) ==
    /\ ppc[p] = "idle"
    /\ job_id \in Ids(jobs)
    /\ jobs[job_id].attempts <= MaxAttempts
    /\ ppc' = [ppc EXCEPT ![p] = "update"]
    /\ parg' = [parg EXCEPT ![p] =
                   [job_id |-> job_id, max_retries |-> max_retries,
                    attempts |-> jobs[job_id].attempts + 1]]
    /\ UNCHANGED <<jobs, workerVars, producers, priorities, types, pret,
                   launchVars, stopVars, seen, meta>>

\* mark_failed, its UPDATE with the attempts computed from the SELECT
MarkFailedUpdate(p) ==
    /\ ppc[p] = "update"
    /\ jobs' = [jobs EXCEPT
                   ![parg[p].job_id].status =
                       IF parg[p].attempts >= parg[p].max_retries
                       THEN "FAILED" ELSE "PENDING",
                   ![parg[p].job_id].attempts = parg[p].attempts]
    /\ ppc' = [ppc EXCEPT ![p] = "idle"]
    /\ parg' = [parg EXCEPT ![p] = NoArgs]
    /\ UNCHANGED <<workerVars, producers, priorities, types, pret,
                   launchVars, stopVars, seen, meta>>

NextMarkConc ==
    \E p \in producers :
        \/ \E job_id \in 1..MaxJobs : MarkFailedSelect(p, job_id, MaxRetries)
        \/ MarkFailedUpdate(p)

InitMarkConc == InitAt("sleep", MarkTables, {Caller1, Caller2}, {50}, JobTypes)
SpecMarkConc == InitMarkConc /\ [][NextMarkConc]_vars

\* One tick of the dispatch loop on a table of PENDING and RUNNING rows, with
\* any max_parallel per type, the scheduler enqueuing next to it.
\* run_forever: capacity of a job type whose max_parallel is parallel, and the
\* rows fetched for it
FetchedUpTo(js, job_type, parallel) ==
    LET capacity == parallel - count_running_jobs(js, job_type)
    IN IF capacity <= 0 THEN <<>> ELSE fetch_next_pending(js, job_type, capacity)

TickRows ==
    [type : JobTypes, url : {"x.test"}, status : {"PENDING", "RUNNING"},
     priority : {10, 20}, attempts : {0}, job_name : {NoName}]

TickTables == UNION {[1..n -> TickRows] : n \in 0..MaxRows}

\* run_forever: the capacity loop, job_type = LIVE_CRAWL
TickFetchLive ==
    /\ wpc = "fetch_live"
    /\ \E parallel \in 1..MaxCapacity :
           batch' = FetchedUpTo(jobs, LIVE_CRAWL, parallel)
    /\ seen' = [seen EXCEPT ![LIVE_CRAWL] = Len(jobs)]
    /\ polled' = NoPoll
    /\ wpc' = "fetch_wb"
    /\ UNCHANGED <<jobs, running, producerVars, launchVars, stopVars, meta>>

\* run_forever: the capacity loop, job_type = WAYBACK_DOWNLOAD, and the
\* "if len(jobs) == 0: continue" after it
TickFetchWb ==
    /\ wpc = "fetch_wb"
    /\ \E parallel \in 1..MaxCapacity :
           batch' = batch \o FetchedUpTo(jobs, WAYBACK_DOWNLOAD, parallel)
    /\ seen' = [seen EXCEPT ![WAYBACK_DOWNLOAD] = Len(jobs)]
    /\ wpc' = IF batch' = <<>> THEN "sleep" ELSE "dispatch"
    /\ UNCHANGED <<jobs, running, polled, producerVars, launchVars, stopVars, meta>>

NextTick ==
    \/ Enqueue
    \/ TickFetchLive
    \/ TickFetchWb
    \/ DispatchMark
    \/ DispatchLaunch

InitTick == InitAt("fetch_live", TickTables, {Scheduler}, {10, 20}, JobTypes)
SpecTick == InitTick /\ [][NextTick]_vars

\* ------------------------------------------------------------------ claims

SamePair(a, b) == a.type = b.type /\ a.url = b.url

\* C1: for every job type, the number of RUNNING jobs of that type is at most
\* max_parallel[type], in every reachable state.
C1_RunningWithinMaxParallel ==
    \A t \in JobTypes : count_running_jobs(jobs, t) <= max_parallel(t)

\* C2: for every url, at most one job is RUNNING, counted across all job types.
C2_OneRunningPerTarget ==
    \A i, j \in Ids(jobs) :
        (i # j /\ jobs[i].status = "RUNNING" /\ jobs[j].status = "RUNNING")
            => jobs[i].url # jobs[j].url

\* C3: for every (type, url) pair at most one job is PENDING, in every reachable
\* state, also after mark_failed has put a job back to PENDING.
C3_OnePendingPerPair ==
    \A i, j \in Ids(jobs) :
        (i # j /\ jobs[i].status = "PENDING" /\ jobs[j].status = "PENDING")
            => ~SamePair(jobs[i], jobs[j])

\* C4: a call of enqueue_job_unique that inserts returns the id of the new PENDING
\* row; while that row is still PENDING, the same caller's next call for the same
\* (type, url) inserts nothing: it does not get past the SELECT (it returns None)
\* and the table is left as it was.
C4_SecondEnqueueSkipped ==
    [][\A p \in producers :
        /\ (ppc[p] = "insert" /\ ppc'[p] = "idle")
             => /\ pret'[p] = Len(jobs) + 1
                /\ Len(jobs') = Len(jobs) + 1
                /\ jobs'[pret'[p]] = NewJob(parg[p].type, parg[p].url, parg[p].priority)
        /\ (/\ ppc[p] = "idle"
            /\ pret[p] # None
            /\ jobs[pret[p]].status = "PENDING"
            /\ (ppc'[p] # ppc[p] \/ pret'[p] # pret[p]))
             => \/ /\ ppc'[p] = "idle"
                   /\ pret'[p] = None
                   /\ jobs' = jobs
                \/ /\ ppc'[p] = "insert"
                   /\ ~SamePair(parg'[p], jobs[pret[p]])
                   /\ jobs' = jobs
      ]_vars

\* C4 witness: the scheduler's first call inserted row 1, which was never
\* dispatched, and its second call returned None: the table holds that one row.
C4_Witness ==
    /\ Len(jobs) = 1
    /\ jobs[1].status = "PENDING"
    /\ jobs[1].attempts = 0
    /\ ppc[Scheduler] = "idle"
    /\ pret[Scheduler] = None

\* C5: when two threads call enqueue_job_unique for the same (type, url), one
\* PENDING row is inserted: no two rows that were never dispatched are PENDING for
\* the same pair.
C5_EnqueueAtomic ==
    \A i, j \in Ids(jobs) :
        (/\ i # j
         /\ jobs[i].status = "PENDING" /\ jobs[i].attempts = 0
         /\ jobs[j].status = "PENDING" /\ jobs[j].attempts = 0)
            => ~SamePair(jobs[i], jobs[j])

TerminalStatuses == {"SUCCEEDED", "FINISHED", "FAILED", "SKIPPED"}

\* C7: once a job's status is terminal (SUCCEEDED, FAILED, SKIPPED, and FINISHED,
\* which is what mark_finished writes), no step changes its status, attempts or
\* job_name.
C7_TerminalFinal ==
    [][\A j \in Ids(jobs) :
        jobs[j].status \in TerminalStatuses => jobs'[j] = jobs[j]]_vars

\* C7 witness: a reconcile pass has jobs to poll while another job is FAILED
\* after exhausting its retries.
C7_Witness ==
    /\ wpc = "reconcile"
    /\ running # <<>>
    /\ \E i \in Ids(jobs) :
          jobs[i].status = "FAILED" /\ jobs[i].attempts = MaxRetries

\* C8: with max_retries = 2, a job whose launch raised once has attempts >= 1,
\* and a job whose launch raised twice is FAILED with attempts = 2.
C8_LaunchFailuresCounted ==
    \A j \in Ids(jobs) :
        /\ launchFails[j] >= 1 => jobs[j].attempts >= 1
        /\ launchFails[j] >= MaxRetries
             => jobs[j].status = "FAILED" /\ jobs[j].attempts = MaxRetries

\* C9: the step in which a job's launch raises increments the job's attempts by
\* one and leaves it PENDING or FAILED, not RUNNING.
C9_LaunchFailureMarksFailed ==
    [][\A j \in Ids(jobs) :
        launchFails'[j] = launchFails[j] + 1
            => /\ jobs'[j].attempts = jobs[j].attempts + 1
               /\ jobs'[j].status \in {"PENDING", "FAILED"}]_vars

\* C10: no job is moved from PENDING to RUNNING while a job of another type for
\* the same url is RUNNING: that candidate stays PENDING.
C10_OtherTypeSkipped ==
    [][\A j \in Ids(jobs) :
        (jobs[j].status = "PENDING" /\ jobs'[j].status = "RUNNING")
            => ~\E i \in Ids(jobs) :
                   /\ jobs[i].status = "RUNNING"
                   /\ jobs[i].url = jobs[j].url
                   /\ jobs[i].type # jobs[j].type]_vars

\* C11: job A for (LIVE_CRAWL, x.test) was enqueued and dispatched, its launch
\* recorded a job name; once the reconciler has polled A and the backend answered
\* FINISHED, A is SUCCEEDED.
C11_FinishedBecomesSucceeded ==
    \A j \in Ids(jobs) :
        (/\ polled = <<j, "FINISHED">>
         /\ jobs[j].type = LIVE_CRAWL /\ jobs[j].url = "x.test"
         /\ jobs[j].priority = 50
         /\ jobs[j].job_name # NoName)
            => jobs[j].status = "SUCCEEDED"

SpecStatuses == {"PENDING", "RUNNING", "SUCCEEDED", "FAILED", "SKIPPED"}

\* C12: in every reachable state every job's status is one of PENDING, RUNNING,
\* SUCCEEDED, FAILED, SKIPPED.
C12_StatusVocabulary ==
    \A j \in Ids(jobs) : jobs[j].status \in SpecStatuses

C14_HandlelessTreatedFailed ==
    [][\A j \in Ids(jobs) :
        (/\ wpc = "reconcile" /\ running # <<>> /\ running' # running
         /\ Head(running) = j
         /\ jobs[j].job_name = NoName)
            => /\ jobs'[j].attempts = jobs[j].attempts + 1
               /\ jobs'[j].status \in {"PENDING", "FAILED"}]_vars

\* C15: the step in which the handler is run for a dispatched job whose type is
\* neither LIVE_CRAWL nor WAYBACK_DOWNLOAD leaves the job SKIPPED, with no job
\* name recorded and attempts unchanged.
C15_UnknownTypeSkipped ==
    [][\A j \in Ids(jobs) :
        (/\ wpc = "launch" /\ wpc' # "launch"
         /\ Head(batch) = j
         /\ jobs[j].type \notin JobTypes)
            => /\ jobs'[j].status = "SKIPPED"
               /\ jobs'[j].job_name = jobs[j].job_name
               /\ jobs'[j].attempts = jobs[j].attempts]_vars

\* C16: no step decreases a job's attempts, and a step that makes a job FAILED
\* leaves it with attempts >= the configured max_retries, whatever its type.
C16_FailedOnlyAfterMaxRetries ==
    [][\A j \in Ids(jobs) :
        /\ jobs'[j].attempts >= jobs[j].attempts
        /\ (jobs[j].status # "FAILED" /\ jobs'[j].status = "FAILED")
             => jobs'[j].attempts >= MaxRetries]_vars

LifecycleTransitions ==
    {<<"PENDING", "RUNNING">>, <<"RUNNING", "SUCCEEDED">>, <<"RUNNING", "FAILED">>,
     <<"RUNNING", "PENDING">>, <<"RUNNING", "SKIPPED">>}

\* C17: no step removes a row, every row a step adds is PENDING, and a step
\* changes a row's status only along PENDING->RUNNING, RUNNING->SUCCEEDED,
\* RUNNING->FAILED, RUNNING->PENDING or RUNNING->SKIPPED.
C17_Lifecycle ==
    [][/\ Len(jobs') >= Len(jobs)
       /\ \A j \in Ids(jobs') \ Ids(jobs) : jobs'[j].status = "PENDING"
       /\ \A j \in Ids(jobs) :
             \/ jobs'[j].status = jobs[j].status
             \/ <<jobs[j].status, jobs'[j].status>> \in LifecycleTransitions]_vars

\* the PENDING rows of job_type
Candidates(js, job_type) ==
    {i \in Ids(js) : js[i].status = "PENDING" /\ js[i].type = job_type}

\* C18: fetch_next_pending(job_type, limit) changes no row; what it returns are
\* PENDING rows of job_type, each once, at most limit of them, in the order
\* priority ascending then id ascending; a PENDING row of job_type it leaves out
\* is left out because limit rows were returned, all of them before it in that
\* order.
C18_FetchNextPending ==
    [][\A job_type \in JobTypes, limit \in 1..MaxRows :
        FetchCall(job_type, limit)
            => LET b == batch'
                   InB(i) == \E k \in 1..Len(b) : b[k] = i
                   Lt(i, j) == \/ jobs[i].priority < jobs[j].priority
                               \/ jobs[i].priority = jobs[j].priority /\ i < j
               IN /\ jobs' = jobs
                  /\ Len(b) <= limit
                  /\ \A k \in 1..Len(b) : b[k] \in Candidates(jobs, job_type)
                  /\ \A k, l \in 1..Len(b) : k < l => Lt(b[k], b[l])
                  /\ \A i \in Candidates(jobs, job_type) :
                        ~InB(i) => /\ Len(b) = limit
                                   /\ \A k \in 1..Len(b) : Lt(b[k], i)]_vars

\* C18 witness: three PENDING rows of one type, the oldest with the larger
\* priority value; the call with limit 2 has returned the two younger rows,
\* oldest first, and left the first row out.
C18_Witness ==
    /\ wpc = "return"
    /\ Len(jobs) = 3
    /\ \A i \in Ids(jobs) : jobs[i].status = "PENDING" /\ jobs[i].type = LIVE_CRAWL
    /\ jobs[1].priority = 20 /\ jobs[2].priority = 10 /\ jobs[3].priority = 10
    /\ batch = <<2, 3>>

\* C19: a row that was never dispatched has no job name, and a job name that is
\* recorded is never changed by a later step.
C19_HandleSetOnce ==
    [][\A j \in Ids(jobs) :
        /\ (jobs[j].status = "PENDING" /\ jobs[j].attempts = 0)
             => jobs[j].job_name = NoName
        /\ jobs[j].job_name # NoName
             => jobs'[j].job_name = jobs[j].job_name]_vars

C21_EveryJobTerminates ==
    \A j \in 1..MaxJobs :
        (j \in Ids(jobs)) ~> (j \in Ids(jobs) /\ jobs[j].status \in TerminalStatuses)

\* C22: the step in which the worker leaves its loop on a stop signal changes no
\* job row and terminates no backend job that was launched.
C22_StopKeepsBackendJobs ==
    [][(wpc # "stopped" /\ wpc' = "stopped")
         => /\ jobs' = jobs
            /\ terminated' = {}]_vars

\* C23: a step in which a store call fails ends the worker: it does not go on
\* to the capacity loop and dispatch.
C23_StoreFailureHalts ==
    [][(polled' # polled /\ polled' # NoPoll /\ polled'[2] = "store_raise")
         => wpc' = "died"]_vars

\* the RUNNING rows of job_type, counted along the table
RunningRows(js, job_type) ==
    Len(SelectSeq(js, LAMBDA r : r.status = "RUNNING" /\ r.type = job_type))

\* C24: count_running_jobs(type) is the number of rows of that type whose status
\* is RUNNING; the step that marks a PENDING job RUNNING raises it by one for the
\* job's type, the step that marks a RUNNING job finished or failed lowers it by
\* one, and no step changes it for another type.
C24_CountRunning ==
    [][\A t \in JobTypes :
        /\ count_running_jobs(jobs', t) = RunningRows(jobs', t)
        /\ \A j \in Ids(jobs) :
              /\ (jobs[j].status = "PENDING" /\ jobs'[j].status = "RUNNING")
                   => count_running_jobs(jobs', t)
                        = count_running_jobs(jobs, t) + (IF jobs[j].type = t THEN 1 ELSE 0)
              /\ (jobs[j].status = "RUNNING" /\ jobs'[j].status # "RUNNING")
                   => count_running_jobs(jobs', t)
                        = count_running_jobs(jobs, t) - (IF jobs[j].type = t THEN 1 ELSE 0)
      ]_vars

\* C24 witness: a job of one type was dispatched and then marked finished or
\* failed, a job of the other type is RUNNING: the counts are 0 and 1.
C24_Witness ==
    \E i, j \in Ids(jobs) :
        /\ jobs[i].type = WAYBACK_DOWNLOAD /\ jobs[i].priority = 50
        /\ jobs[i].status \in {"FINISHED", "FAILED"}
        /\ jobs[j].type = LIVE_CRAWL /\ jobs[j].status = "RUNNING"
        /\ count_running_jobs(jobs, WAYBACK_DOWNLOAD) = 0
        /\ count_running_jobs(jobs, LIVE_CRAWL) = 1

\* C25: mark_failed(job_id, max_retries) on a RUNNING job adds one to its
\* attempts and leaves it FAILED when the new attempts >= max_retries, PENDING
\* otherwise, never RUNNING; with max_retries = 1 a job that had not failed
\* before ends FAILED with attempts = 1.  No other row or column changes.
C25_MarkFailed ==
    [][(wpc = "call" /\ wpc' = "return")
         => LET j == parg'[Scheduler].job_id
                m == parg'[Scheduler].max_retries
            IN /\ jobs'[j].attempts = jobs[j].attempts + 1
               /\ jobs'[j].status \in {"FAILED", "PENDING"}
               /\ jobs'[j].status = "FAILED" <=> jobs'[j].attempts >= m
               /\ (m = 1 /\ jobs[j].attempts = 0)
                    => jobs'[j].status = "FAILED" /\ jobs'[j].attempts = 1
               /\ jobs' = [jobs EXCEPT ![j].status = jobs'[j].status,
                                       ![j].attempts = jobs'[j].attempts]]_vars

\* C25 witness: mark_failed was called with max_retries = 1 on a job that had
\* not failed before; the job is FAILED with attempts = 1.
C25_Witness ==
    /\ wpc = "return"
    /\ parg[Scheduler].max_retries = 1
    /\ jobs[parg[Scheduler].job_id].status = "FAILED"
    /\ jobs[parg[Scheduler].job_id].attempts = 1

\* C26: when run_once has gone through the (domain, timestamp) pairs of the dead
\* domains, the table holds one wayback job per pair: k jobs for a domain with k
\* timestamps.
C26_OneJobPerDomainStamp ==
    (ppc[Scheduler] = "run_once" /\ parg[Scheduler].todo = <<>>)
        => \A d \in Urls :
             Cardinality({i \in Ids(jobs) :
                             jobs[i].type = WAYBACK_CREATE /\ jobs[i].url = d})
               = Cardinality({ds \in parg[Scheduler].done : ds[1] = d})

\* C27: whenever the worker is about to call the backend adapter for a job, the
\* job's row is already RUNNING and counted by count_running_jobs for its type.
C27_RunningBeforeLaunch ==
    wpc = "launch"
        => /\ batch # <<>>
           /\ jobs[Head(batch)].status = "RUNNING"
           /\ count_running_jobs(jobs, jobs[Head(batch)].type) >= 1

\* C27 witness: the worker has marked a WAYBACK_DOWNLOAD job and stands before
\* its launch.
C27_Witness ==
    /\ wpc = "launch"
    /\ jobs[Head(batch)].type = WAYBACK_DOWNLOAD
    /\ jobs[Head(batch)].job_name = NoName

\* the ids of s that are rows of job_type
OfType(s, js, job_type) == SelectSeq(s, LAMBDA i : js[i].type = job_type)

\* max_parallel - count_running_jobs, or 0 where that is negative
Capacity(js, job_type) ==
    IF max_parallel(job_type) > count_running_jobs(js, job_type)
    THEN max_parallel(job_type) - count_running_jobs(js, job_type)
    ELSE 0

\* C28: the rows a tick fetches for a type are PENDING rows of that type, at
\* most capacity = max_parallel - count_running_jobs of them as counted when the
\* type is fetched, and none when capacity <= 0; the tick moves a row from
\* PENDING to RUNNING only if it is the next fetched row, each fetched row once.
C28_DispatchWithinCapacity ==
    [][/\ \A t \in JobTypes :
            LET new == IF wpc' = "fetch_wb" /\ wpc # "fetch_wb"
                       THEN OfType(batch', jobs, t)
                       ELSE IF wpc = "fetch_wb"
                            THEN SubSeq(OfType(batch', jobs, t),
                                        Len(OfType(batch, jobs, t)) + 1,
                                        Len(OfType(batch', jobs, t)))
                            ELSE <<>>
            IN /\ Len(new) <= Capacity(jobs, t)
               /\ \A k \in 1..Len(new) : jobs[new[k]].status = "PENDING"
       /\ \A k, l \in 1..Len(batch') : k # l => batch'[k] # batch'[l]
       /\ wpc \in {"dispatch", "launch"} => batch' \in {batch, Tail(batch)}
       /\ \A j \in Ids(jobs) :
            (jobs[j].status = "PENDING" /\ jobs'[j].status = "RUNNING")
                => wpc = "dispatch" /\ j = Head(batch)
      ]_vars

\* C28 witness: two PENDING jobs of one type, capacity 1: one was fetched and
\* marked RUNNING, the other was left PENDING outside the batch.
C28_Witness ==
    /\ wpc = "launch"
    /\ batch = <<Head(batch)>>
    /\ \E i \in Ids(jobs) :
          /\ i # Head(batch)
          /\ jobs[i].type = jobs[Head(batch)].type
          /\ jobs[i].status = "PENDING"
          /\ jobs[i].priority = jobs[Head(batch)].priority

\* C29: the reconcile step for a job whose backend answers FINISHED is the
\* store's success update of that job, and for a job whose backend answers FAILED
\* it is mark_failed with the configured max_retries, whatever the job's type.
C29_ReconcileOutcome ==
    [][(polled' # polled /\ polled' # NoPoll)
         => LET j == polled'[1]
                st == polled'[2]
            IN /\ st = "FINISHED" => jobs' = mark_finished(jobs, j)
               /\ st = "FAILED" => jobs' = mark_failed(jobs, j, MaxRetries)]_vars

\* C30: a reconcile step polls only a job that is RUNNING and changes no other
\* row; when the backend answers RUNNING it changes nothing at all; and while
\* the reconciler runs no row whose status is not RUNNING changes.
C30_ReconcileFrame ==
    [][/\ (polled' # polled /\ polled' # NoPoll)
           => LET j == polled'[1]
              IN /\ jobs[j].status = "RUNNING"
                 /\ Len(jobs') = Len(jobs)
                 /\ \A i \in Ids(jobs) : i # j => jobs'[i] = jobs[i]
                 /\ polled'[2] = "RUNNING" => jobs' = jobs
       /\ wpc = "reconcile"
           => \A i \in Ids(jobs) : jobs[i].status # "RUNNING" => jobs'[i] = jobs[i]
      ]_vars

\* C30 witness: the reconciler has polled a RUNNING job whose backend answered
\* RUNNING, next to a row that is not RUNNING.
C30_Witness ==
    /\ wpc = "reconcile"
    /\ polled # NoPoll
    /\ polled[2] = "RUNNING"
    /\ jobs[polled[1]].status = "RUNNING"
    /\ \E i \in Ids(jobs) : i # polled[1] /\ jobs[i].status \in {"PENDING", "FAILED"}

\* a job other than job_id is RUNNING for job_id's url
TargetActive(js, job_id) ==
    \E i \in Ids(js) : i # job_id /\ js[i].status = "RUNNING" /\ js[i].url = js[job_id].url

\* C31: a PENDING job whose target is active is skipped: no step takes it out
\* of PENDING while another job for its url is RUNNING (it is dispatched only
\* on a later tick, after that job has ended).
C31_ActiveTargetStaysPending ==
    [][\A j \in Ids(jobs) :
        (jobs[j].status = "PENDING" /\ TargetActive(jobs, j))
            => jobs'[j].status = "PENDING"]_vars

\* C32: when a tick marks a job RUNNING (its launch follows at once), no other
\* job of the same type that was in the table when the type was fetched and is
\* still PENDING, to be launched later in the tick or left undispatched, has a
\* strictly lower priority value, or the same priority and an earlier created_at.
C32_ClaimedInOrder ==
    [][\A j \in Ids(jobs) :
        (jobs[j].status = "PENDING" /\ jobs'[j].status = "RUNNING")
            => \A i \in Ids(jobs) :
                 (/\ i # j
                  /\ i <= seen[jobs[j].type]
                  /\ jobs[i].type = jobs[j].type
                  /\ jobs[i].status = "PENDING")
                    => ~ \/ jobs[i].priority < jobs[j].priority
                         \/ jobs[i].priority = jobs[j].priority /\ i < j]_vars

\* C32 witness: two jobs of one type are claimed in one tick; the younger one,
\* of priority 10, stands before its launch while the older one, of priority
\* 20, is still PENDING in the batch.
C32_Witness ==
    /\ wpc = "launch"
    /\ Len(batch) >= 2
    /\ batch[2] < batch[1]
    /\ jobs[batch[1]].type = jobs[batch[2]].type
    /\ jobs[batch[1]].priority = 10
    /\ jobs[batch[2]].priority = 20
    /\ jobs[batch[2]].status = "PENDING"

C34_NoLostIncrement ==
    [][\A p \in producers :
        (ppc[p] = "update" /\ ppc'[p] = "idle")
            => jobs'[parg[p].job_id].attempts = jobs[parg[p].job_id].attempts + 1]_vars

\* C35: the target check and the claim are one step: every step in which the
\* dispatch loop claims a job finds the job PENDING and no other job RUNNING for
\* its url, so no job is claimed twice and no two jobs for one url are RUNNING
\* through claims.
C35_CheckAndClaimAtomic ==
    [][\A j \in Ids(jobs) :
        launches'[j].marks > launches[j].marks
            => /\ jobs[j].status = "PENDING"
               /\ launches'[j].marks = launches[j].marks + 1
               /\ ~TargetActive(jobs, j)
               /\ ~TargetActive(jobs', j)]_vars

\* C36: every job that failed at least once and is FAILED, or PENDING for its
\* retry, has a last_error column that holds the error of the failed attempt.
C36_LastErrorRecorded ==
    \A j \in Ids(jobs) :
        (jobs[j].attempts >= 1 /\ jobs[j].status \in {"FAILED", "PENDING"})
            => /\ "last_error" \in DOMAIN jobs[j]
               /\ jobs[j].last_error # ""

\* C37: once stop() has been called run_forever eventually returns; from then
\* on no tick starts; and when the worker leaves its loop the tick in progress
\* is finished: nothing fetched is left undispatched and every job that was
\* marked RUNNING by the loop has had its launch call.
C37_StopTerminates ==
    /\ stop ~> (wpc = "stopped")
    /\ [][(stop /\ wpc = "sleep") => wpc' \in {"sleep", "stopped"}]_vars
    /\ [][wpc = "stopped" => wpc' = "stopped" /\ jobs' = jobs]_vars
    /\ [](wpc = "stopped"
            => /\ batch = <<>>
               /\ running = <<>>
               /\ \A j \in Ids(jobs) : launches[j].calls = launches[j].marks)

\* C37 witness: stop() was called and run_forever has returned; a job the loop
\* marked RUNNING was launched and is RUNNING under the name of its backend job.
C37_Witness ==
    /\ wpc = "stopped"
    /\ stop
    /\ \E j \in Ids(jobs) :
          /\ jobs[j].status = "RUNNING"
          /\ launches[j].marks = 1
          /\ launches[j].calls = 1
          /\ jobs[j].job_name # NoName

C39_Watermarks ==
    [][/\ (ppc[Scheduler] = "run_once" /\ ppc'[Scheduler] = "fetch")
            => LET run == parg'[Scheduler]
               IN /\ meta' = meta
                  /\ run.mode = "full" <=> meta.last_full_run = Unset
                  /\ run.mode = "full" => run.window = <<>>
                  /\ run.mode # "full"
                       => /\ run.mode = "incremental"
                          /\ run.window =
                               <<(IF meta.last_incremental_run # Unset
                                  THEN meta.last_incremental_run[2]
                                  ELSE meta.last_full_run[2]) \div 2,
                                 run.now \div 2>>
       /\ (ppc[Scheduler] = "fetch" /\ ppc'[Scheduler] = "run_once")
            => LET run == parg'[Scheduler]
               IN IF run.fetched
                  THEN /\ run.mode = "full"
                            => /\ meta'.last_full_run = <<"iso", run.now>>
                               /\ meta'.last_incremental_run = meta.last_incremental_run
                       /\ run.mode = "incremental"
                            => /\ meta'.last_incremental_run = <<"iso", run.now>>
                               /\ meta'.last_full_run = meta.last_full_run
                  ELSE meta' = meta
       /\ meta.last_full_run # Unset => meta'.last_full_run = meta.last_full_run
      ]_vars

\* C39 witness: after a full run and an incremental run, a second incremental
\* run started from the first one's watermark and has set last_incremental_run.
C39_Witness ==
    /\ ppc[Scheduler] = "run_once"
    /\ parg[Scheduler].mode = "incremental"
    /\ parg[Scheduler].fetched
    /\ meta.last_full_run # Unset
    /\ meta.last_incremental_run = <<"iso", parg[Scheduler].now>>
    /\ parg[Scheduler].start[1] > meta.last_full_run[2]
====
